---- MODULE Spec2Model ----
(***************************************************************************)
(* A model of the "breathe" keep-alive and relay service.                  *)
(*                                                                         *)
(*   src/app.py     multi-target variant: target normalisation, relay      *)
(*                  fan-out (/receive_pulse), heartbeat loop               *)
(*   src/breath.py  single-target variant: /receive_pulse                  *)
(*                                                                         *)
(* Python strings are sequences of one-character strings, so strip,        *)
(* rstrip, lower, endswith, slicing and split are computed character by    *)
(* character.  Python's None, where a string is expected, is NoneStr.      *)
(* Durations are counted in hundredths of a second.                        *)
(*                                                                         *)
(* Left out: GET / and GET /send_wave (they read the configuration and     *)
(* write nothing), the --once command line, the X-PULSE-TOKEN header and   *)
(* the text_snippet of a result; a response's status code is 200.          *)
(***************************************************************************)
EXTENDS Integers, Sequences, FiniteSets, TLC

VARIABLES
    environ,          \* os.environ: the settings the process is started with
    requests,         \* TRUE iff "import requests" succeeded
    launch,           \* "script" (python app.py) or "wsgi" (imported by a server)
    variant,          \* which file is deployed: "app" or "breath"
    pc,               \* position of the module-level code of app.py
    MIN_INTERVAL, MAX_INTERVAL, PER_TARGET_DELAY, AUTO_PING,
    FORWARD_URLS,     \* the relay target list (a sequence of strings)
    session,          \* the shared requests.Session, or NoSession
    port,             \* the port app.run listens on
    hb,               \* the auto_ping thread
    rq,               \* a /receive_pulse request being handled by app.py
    br,               \* a /receive_pulse request being handled by breath.py
    nz                \* a call of normalize_target_candidate and a second call on its result

vars == <<environ, requests, launch, variant, pc, MIN_INTERVAL, MAX_INTERVAL,
          PER_TARGET_DELAY, AUTO_PING, FORWARD_URLS, session, port, hb, rq, br, nz>>

-----------------------------------------------------------------------------
(* Bounds of the model *)

MaxChunks == 4        \* chunks a candidate string is put together from
MaxItems == 3         \* comma-separated items in FORWARD_URLS
MaxTargets == 2       \* targets of the running service
MaxTicks == 2         \* heartbeat iterations that are followed
MaxRequests == 1      \* /receive_pulse requests that are followed

-----------------------------------------------------------------------------
(* Python strings *)

NoneStr == <<"None">>

SPACE == " "
TAB == "\t"
SLASH == "/"
COMMA == ","

UpperCase == <<"A","B","C","D","E","F","G","H","I","J","K","L","M",
               "N","O","P","Q","R","S","T","U","V","W","X","Y","Z">>
LowerCase == <<"a","b","c","d","e","f","g","h","i","j","k","l","m",
               "n","o","p","q","r","s","t","u","v","w","x","y","z">>

\* str.lower() on one character
LowerChar(ch) ==
    IF \E i \in 1..Len(UpperCase) : UpperCase[i] = ch
    THEN LowerCase[CHOOSE i \in 1..Len(UpperCase) : UpperCase[i] = ch]
    ELSE ch

\* str.lower()
Lower(s) == [i \in 1..Len(s) |-> LowerChar(s[i])]

IsSpace(ch) == ch \in {SPACE, TAB}

\* str.rstrip(): drop trailing whitespace
RECURSIVE RStrip(_)
RStrip(s) ==
    IF s # <<>> /\ IsSpace(s[Len(s)]) THEN RStrip(SubSeq(s, 1, Len(s) - 1)) ELSE s

\* str.lstrip()
RECURSIVE LStrip(_)
LStrip(s) ==
    IF s # <<>> /\ IsSpace(s[1]) THEN LStrip(Tail(s)) ELSE s

\* str.strip()
Strip(s) == LStrip(RStrip(s))

\* str.rstrip('/')
RECURSIVE RStripSlash(_)
RStripSlash(s) ==
    IF s # <<>> /\ s[Len(s)] = SLASH THEN RStripSlash(SubSeq(s, 1, Len(s) - 1)) ELSE s

\* str.endswith(suffix)
EndsWith(s, suffix) ==
    /\ Len(s) >= Len(suffix)
    /\ SubSeq(s, Len(s) - Len(suffix) + 1, Len(s)) = suffix

\* s[:-n]
DropLast(s, n) == SubSeq(s, 1, Len(s) - n)

\* str.split(','): the pieces between commas, empty pieces included
RECURSIVE SplitComma(_, _)
SplitComma(s, piece) ==
    IF s = <<>> THEN <<piece>>
    ELSE IF s[1] = COMMA THEN <<piece>> \o SplitComma(Tail(s), <<>>)
    ELSE SplitComma(Tail(s), Append(piece, s[1]))

Split(s) == SplitComma(s, <<>>)

RECURSIVE Concat(_)
Concat(ss) == IF ss = <<>> THEN <<>> ELSE Head(ss) \o Concat(Tail(ss))

RECURSIVE JoinComma(_)
JoinComma(ss) ==
    IF ss = <<>> THEN <<>>
    ELSE IF Len(ss) = 1 THEN ss[1]
    ELSE ss[1] \o <<COMMA>> \o JoinComma(Tail(ss))

-----------------------------------------------------------------------------
(* Default targets, src/app.py 42-53 *)

DEFAULT_PULSE_PATH == <<"/","p","u","l","s","e","_","r","e","c","e","i","v","e","r">>

DEFAULT_FORWARD_URLS == <<
    <<"h","t","t","p","s",":","/","/","e","x","e","r","c","i","s","e","-","g","o","9","d",".","o","n","r","e","n","d","e","r",".","c","o","m">>,
    <<"h","t","t","p","s",":","/","/","w","h","o","-","i","-","a","m","-","u","z","h","6",".","o","n","r","e","n","d","e","r",".","c","o","m">>,
    <<"h","t","t","p","s",":","/","/","t","o","m","o","r","r","o","w","-","p","e","r","s","o","n","a","l","-","a","p","p",".","o","n","r","e","n","d","e","r",".","c","o","m">>,
    <<"h","t","t","p","s",":","/","/","b","r","e","a","t","h","e","-","5","0","0","6",".","o","n","r","e","n","d","e","r",".","c","o","m">>,
    <<"h","t","t","p","s",":","/","/","c","h","u","r","c","h","-","i","0","i","m",".","o","n","r","e","n","d","e","r",".","c","o","m">>,
    <<"h","t","t","p","s",":","/","/","j","e","v","i","c","a","r","n","-","c","h","r","i","s","t","i","a","n","-","s","c","h","o","o","l","-","z","0","8","v",".","o","n","r","e","n","d","e","r",".","c","o","m">> >>

-----------------------------------------------------------------------------
(* normalize_target_candidate, src/app.py 88-110 *)

\* the while loop of lines 104-108: c loses its last len('/pulse_receiver')
\* characters for as long as its lower-cased, slash-stripped form ends in the suffix
RECURSIVE StripPulseSuffixes(_)
StripPulseSuffixes(c) ==
    IF EndsWith(RStripSlash(Lower(c)), DEFAULT_PULSE_PATH)
    THEN StripPulseSuffixes(RStripSlash(DropLast(c, Len(DEFAULT_PULSE_PATH))))
    ELSE c

\* a variant that appends the suffix without stripping the copies already there
AppendOnlyNormalize(candidate) ==
    IF candidate = NoneStr \/ candidate = <<>> THEN NoneStr
    ELSE IF Strip(candidate) = <<>> THEN NoneStr
    ELSE RStripSlash(RStrip(Strip(candidate))) \o DEFAULT_PULSE_PATH

normalize_target_candidate(candidate) ==
    IF candidate = NoneStr \/ candidate = <<>> THEN NoneStr
    ELSE IF Strip(candidate) = <<>> THEN NoneStr
    ELSE RStripSlash(StripPulseSuffixes(RStrip(Strip(candidate)))) \o DEFAULT_PULSE_PATH

-----------------------------------------------------------------------------
(* Python floats and the text of a numeric setting *)

\* a float: finite (v hundredths of a second), nan or inf
FIN(v) == [k |-> "fin", v |-> v]
NAN == [k |-> "nan", v |-> 0]
INF == [k |-> "inf", v |-> 0]
Unbound == [k |-> "unbound", v |-> 0]     \* a name not assigned yet

\* x <= 0, x < 0, x > y as Python evaluates them: every comparison with nan is False
FloatLe0(x) == x.k = "fin" /\ x.v <= 0
FloatLt0(x) == x.k = "fin" /\ x.v < 0
FloatGt(x, y) ==
    \/ x.k = "fin" /\ y.k = "fin" /\ x.v > y.v
    \/ x.k = "inf" /\ y.k = "fin"

\* bool(x): every float but 0.0 is true, nan and inf included
Truthy(x) == ~(x.k = "fin" /\ x.v = 0)

\* The text of a numeric setting: an integer literal ("15"), a decimal literal
\* ("0.15", v hundredths), "nan", "inf", or text that is no number ("abc")
IntLit(n) == [form |-> "int", v |-> n]
DecLit(h) == [form |-> "dec", v |-> h]
NanLit == [form |-> "nan", v |-> 0]
InfLit == [form |-> "inf", v |-> 0]
Junk == [form |-> "junk", v |-> 0]
UnsetNum == [form |-> "unset", v |-> 0]

\* float(text) raises ValueError on text that is no number; it accepts "nan" and "inf"
FloatRaises(t) == t.form = "junk"
Float(t) ==
    CASE t.form = "int" -> FIN(t.v * 100)
      [] t.form = "dec" -> FIN(t.v)
      [] t.form = "nan" -> NAN
      [] t.form = "inf" -> INF

\* int(text) accepts integer literals only
IntRaises(t) == t.form # "int"

\* time.sleep(x) raises ValueError for nan and OverflowError for inf
SleepRaises(x) == x.k \in {"nan", "inf"}

\* random.uniform(a, b) = a + (b - a) * random(), random() in [0, 1)
Uniform(a, b) ==
    IF a.k = "fin" /\ b.k = "fin" THEN {FIN(a.v), FIN(b.v)}
    ELSE IF a.k = "fin" /\ b.k = "inf" THEN {INF, NAN}
    ELSE {NAN}

\* the defaults of the numeric settings
DefaultMinSeconds == 15
DefaultMaxSeconds == 49
DefaultDelayHundredths == 15
DefaultPort == 5001

\* os.environ.get(name, default)
EnvStr(name, default) == IF environ[name] = NoneStr THEN default ELSE environ[name]
EnvNum(name, default) == IF environ[name] = UnsetNum THEN default ELSE environ[name]

LEGACY_FORWARD == Strip(EnvStr("FORWARD_URL", <<>>))
raw_list == Strip(EnvStr("FORWARD_URLS", <<>>))

-----------------------------------------------------------------------------
(* Module-level code of src/app.py, one action per block *)

NoSession == [open |-> FALSE, cookies |-> {}]
NewSession == [open |-> TRUE, cookies |-> {}]

NoRequest == [json |-> "absent", form |-> "{}"]

HbOff == [pc |-> "off", idx |-> 0, wait |-> Unbound, tick |-> 0, attempts |-> <<>>]
RqIdle == [pc |-> "idle", idx |-> 0, request |-> NoRequest, payload |-> "",
           results |-> <<>>, attempts |-> <<>>, status |-> 0, body |-> <<>>, served |-> 0]
BrIdle == [pc |-> "idle", request |-> NoRequest, payload |-> "", outcome |-> "",
           status |-> 0, served |-> 0]
NzOff == [pc |-> "off", candidate |-> NoneStr, once |-> NoneStr, twice |-> NoneStr]

\* lines 58-63
ReadSettings ==
    /\ variant = "app" /\ pc = "settings"
    /\ AUTO_PING' = (Lower(EnvStr("AUTO_PING", <<"t","r","u","e">>))
                        \in {<<"1">>, <<"t","r","u","e">>, <<"y","e","s">>})
    /\ pc' = "intervals"
    /\ UNCHANGED <<environ, requests, launch, variant, MIN_INTERVAL, MAX_INTERVAL,
                   PER_TARGET_DELAY, FORWARD_URLS, session, port, hb, rq, br, nz>>

\* lines 66-71: one try block around both conversions
ParseIntervals ==
    /\ variant = "app" /\ pc = "intervals"
    /\ LET tmin == EnvNum("MIN_INTERVAL", IntLit(DefaultMinSeconds))
           tmax == EnvNum("MAX_INTERVAL", IntLit(DefaultMaxSeconds))
       IN IF FloatRaises(tmin) \/ FloatRaises(tmax)
          THEN /\ MIN_INTERVAL' = FIN(DefaultMinSeconds * 100)
               /\ MAX_INTERVAL' = FIN(DefaultMaxSeconds * 100)
          ELSE /\ MIN_INTERVAL' = Float(tmin)
               /\ MAX_INTERVAL' = Float(tmax)
    /\ pc' = "delay"
    /\ UNCHANGED <<environ, requests, launch, variant, PER_TARGET_DELAY, AUTO_PING,
                   FORWARD_URLS, session, port, hb, rq, br, nz>>

\* lines 73-76
ParseDelay ==
    /\ variant = "app" /\ pc = "delay"
    /\ LET t == EnvNum("PER_TARGET_DELAY", DecLit(DefaultDelayHundredths))
       IN PER_TARGET_DELAY' = IF FloatRaises(t) THEN FIN(DefaultDelayHundredths)
                              ELSE Float(t)
    /\ pc' = "sanitize"
    /\ UNCHANGED <<environ, requests, launch, variant, MIN_INTERVAL, MAX_INTERVAL,
                   AUTO_PING, FORWARD_URLS, session, port, hb, rq, br, nz>>

\* lines 78-83
Sanitize ==
    /\ variant = "app" /\ pc = "sanitize"
    /\ IF FloatLe0(MIN_INTERVAL) \/ FloatLe0(MAX_INTERVAL)
            \/ FloatGt(MIN_INTERVAL, MAX_INTERVAL)
       THEN /\ MIN_INTERVAL' = FIN(DefaultMinSeconds * 100)
            /\ MAX_INTERVAL' = FIN(DefaultMaxSeconds * 100)
       ELSE UNCHANGED <<MIN_INTERVAL, MAX_INTERVAL>>
    /\ PER_TARGET_DELAY' = IF FloatLt0(PER_TARGET_DELAY) THEN FIN(0)
                           ELSE PER_TARGET_DELAY
    /\ pc' = "collect"
    /\ UNCHANGED <<environ, requests, launch, variant, AUTO_PING, FORWARD_URLS,
                   session, port, hb, rq, br, nz>>

\* [x for x in xs if x]
RECURSIVE NonEmpty(_)
NonEmpty(xs) ==
    IF xs = <<>> THEN <<>>
    ELSE IF Head(xs) = <<>> \/ Head(xs) = NoneStr THEN NonEmpty(Tail(xs))
    ELSE <<Head(xs)>> \o NonEmpty(Tail(xs))

\* line 119: [i.strip() for i in raw_list.split(',') if i.strip()]
Items(raw) == LET pieces == Split(raw)
              IN NonEmpty([i \in 1..Len(pieces) |-> Strip(pieces[i])])

\* lines 115-128: the candidates, from the first setting that is not empty
Candidates ==
    IF raw_list # <<>> THEN Items(raw_list)
    ELSE IF LEGACY_FORWARD # <<>> THEN <<LEGACY_FORWARD>>
    ELSE DEFAULT_FORWARD_URLS

CollectTargets ==
    /\ variant = "app" /\ pc = "collect"
    /\ FORWARD_URLS' = Candidates
    /\ pc' = "normalize"
    /\ UNCHANGED <<environ, requests, launch, variant, MIN_INTERVAL, MAX_INTERVAL,
                   PER_TARGET_DELAY, AUTO_PING, session, port, hb, rq, br, nz>>

\* line 131
NormalizeAll(urls) ==
    LET kept == NonEmpty(urls)
    IN [i \in 1..Len(kept) |-> normalize_target_candidate(kept[i])]

NormalizeTargets ==
    /\ variant = "app" /\ pc = "normalize"
    /\ FORWARD_URLS' = NormalizeAll(FORWARD_URLS)
    /\ pc' = "dedup"
    /\ UNCHANGED <<environ, requests, launch, variant, MIN_INTERVAL, MAX_INTERVAL,
                   PER_TARGET_DELAY, AUTO_PING, session, port, hb, rq, br, nz>>

\* lines 134-140: seen gates the insertion into final_targets
RECURSIVE DedupLoop(_, _, _)
DedupLoop(urls, seen, final_targets) ==
    IF urls = <<>> THEN final_targets
    ELSE IF Head(urls) \notin seen
         THEN DedupLoop(Tail(urls), seen \cup {Head(urls)}, Append(final_targets, Head(urls)))
         ELSE DedupLoop(Tail(urls), seen, final_targets)

\* a variant whose seen set is never filled
KeepAll(urls) == urls

Dedup(urls) == DedupLoop(urls, {}, <<>>)

DedupTargets ==
    /\ variant = "app" /\ pc = "dedup"
    /\ FORWARD_URLS' = Dedup(FORWARD_URLS)
    /\ pc' = "session"
    /\ UNCHANGED <<environ, requests, launch, variant, MIN_INTERVAL, MAX_INTERVAL,
                   PER_TARGET_DELAY, AUTO_PING, session, port, hb, rq, br, nz>>

\* line 147
CreateSession ==
    /\ variant = "app" /\ pc = "session"
    /\ session' = IF requests THEN NewSession ELSE NoSession
    /\ pc' = "pinger"
    /\ UNCHANGED <<environ, requests, launch, variant, MIN_INTERVAL, MAX_INTERVAL,
                   PER_TARGET_DELAY, AUTO_PING, FORWARD_URLS, port, hb, rq, br, nz>>

\* lines 245-249: the one place a heartbeat thread is started
StartPinger ==
    /\ variant = "app" /\ pc = "pinger"
    /\ hb' = IF AUTO_PING THEN [hb EXCEPT !.pc = "entry"] ELSE hb
    /\ pc' = "main"
    /\ UNCHANGED <<environ, requests, launch, variant, MIN_INTERVAL, MAX_INTERVAL,
                   PER_TARGET_DELAY, AUTO_PING, FORWARD_URLS, session, port, rq, br, nz>>

\* lines 276-286, run as a script without --once: int() of the PORT setting is
\* not guarded, so text that is no integer ends the process with a ValueError
Main ==
    /\ variant = "app" /\ pc = "main" /\ launch = "script"
    /\ LET t == EnvNum("PORT", IntLit(DefaultPort))
       IN IF IntRaises(t)
          THEN pc' = "aborted" /\ port' = port
          ELSE pc' = "serving" /\ port' = t.v
    /\ UNCHANGED <<environ, requests, launch, variant, MIN_INTERVAL, MAX_INTERVAL,
                   PER_TARGET_DELAY, AUTO_PING, FORWARD_URLS, session, hb, rq, br, nz>>

\* line 276, imported by a WSGI server: the __main__ block is skipped
Imported ==
    /\ variant = "app" /\ pc = "main" /\ launch = "wsgi"
    /\ pc' = "serving"
    /\ UNCHANGED <<environ, requests, launch, variant, MIN_INTERVAL, MAX_INTERVAL,
                   PER_TARGET_DELAY, AUTO_PING, FORWARD_URLS, session, port, hb, rq, br,
                   nz>>

Startup ==
    \/ ReadSettings \/ ParseIntervals \/ ParseDelay \/ Sanitize
    \/ CollectTargets \/ NormalizeTargets \/ DedupTargets
    \/ CreateSession \/ StartPinger \/ Main \/ Imported

-----------------------------------------------------------------------------
(* The downstream targets and the shared requests.Session *)

\* What one session.post(u, json=payload, timeout=10) can end in: a response
\* (which may carry a Set-Cookie header), a timeout, or a transport failure.
\* The last two are raised as exceptions.
Outcomes == {"response", "response_cookie", "timeout", "connection_error"}

Raised(o) == o \in {"timeout", "connection_error"}

\* a Session keeps the cookies its responses set and sends them on later requests
\* to the same target, whichever thread makes them
SessionAfter(u, o) ==
    IF o = "response_cookie" THEN [session EXCEPT !.cookies = @ \cup {u}] ELSE session

\* one call of session.post, as the target and the network see it
Attempt(u, payload) == [url |-> u, payload |-> payload]

-----------------------------------------------------------------------------
(* POST /receive_pulse of src/app.py, lines 184-215 *)

\* what a request carries as JSON, and its form fields as form.to_dict() gives them
JsonBodies == {"absent", "malformed", "null", "{}", "{\"k\": \"v\"}"}
Requests == { [json |-> j, form |-> "{}"] : j \in JsonBodies }
                \cup { [json |-> "absent", form |-> "{\"f\": \"1\"}"] }

\* request.get_json(silent=True): None when there is no JSON, when it does not
\* parse, and for the JSON value null
get_json(req) == IF req.json \in {"absent", "malformed", "null"} THEN "None" ELSE req.json

\* a variant that tests the truth of the parsed value instead of "is None"
PayloadIfTruthy(req) ==
    IF get_json(req) \in {"None", "{}"}
    THEN IF req.form # "{}" THEN req.form ELSE "{\"message\": \"ping\"}"
    ELSE get_json(req)

\* lines 193-195
Payload(req) ==
    IF get_json(req) = "None"
    THEN IF req.form # "{}" THEN req.form ELSE "{\"message\": \"ping\"}"
    ELSE get_json(req)

\* lines 206 and 209: the entry of the result list for one target
Result(u, o) ==
    IF Raised(o) THEN [url |-> u, code |-> 0, error |-> o]
    ELSE [url |-> u, code |-> 200, error |-> ""]

\* lines 212 and 241: is there a pause after the target at index idx
Staggers(idx) == Truthy(PER_TARGET_DELAY) /\ idx # Len(FORWARD_URLS) - 1

\* lines 190-201: the request arrives; without a session it is answered at once
ReceivePulse ==
    /\ variant = "app" /\ pc = "serving"
    /\ rq.pc = "idle" /\ rq.served < MaxRequests
    /\ \E req \in Requests :
          rq' = IF ~session.open
                THEN [rq EXCEPT !.pc = "done", !.request = req, !.status = 500]
                ELSE [rq EXCEPT !.pc = "loop", !.request = req, !.payload = Payload(req),
                                !.idx = 0, !.results = <<>>, !.attempts = <<>>]
    /\ UNCHANGED <<environ, requests, launch, variant, pc, MIN_INTERVAL, MAX_INTERVAL,
                   PER_TARGET_DELAY, AUTO_PING, FORWARD_URLS, session, port, hb, br, nz>>

\* a variant that consumes the target list while it walks it
RqPostPopping ==
    /\ variant = "app" /\ pc = "serving"
    /\ rq.pc = "loop" /\ FORWARD_URLS # <<>>
    /\ \E o \in Outcomes :
          LET u == Head(FORWARD_URLS)
          IN /\ rq' = [rq EXCEPT !.attempts = Append(@, Attempt(u, rq.payload)),
                                 !.results = Append(@, Result(u, o)),
                                 !.idx = @ + 1]
             /\ session' = SessionAfter(u, o)
             /\ FORWARD_URLS' = Tail(FORWARD_URLS)
    /\ UNCHANGED <<environ, requests, launch, variant, pc, MIN_INTERVAL, MAX_INTERVAL,
                   PER_TARGET_DELAY, AUTO_PING, port, hb, br, nz>>

\* lines 202-212: one pass of the loop body up to the pause
RqPost ==
    /\ variant = "app" /\ pc = "serving"
    /\ rq.pc = "loop" /\ rq.idx < Len(FORWARD_URLS)
    /\ \E o \in Outcomes :
          LET u == FORWARD_URLS[rq.idx + 1]
          IN /\ rq' = [rq EXCEPT !.attempts = Append(@, Attempt(u, rq.payload)),
                                 !.results = Append(@, Result(u, o)),
                                 !.pc = IF Staggers(rq.idx) THEN "stagger" ELSE "loop",
                                 !.idx = IF Staggers(rq.idx) THEN @ ELSE @ + 1]
             /\ session' = SessionAfter(u, o)
    /\ UNCHANGED <<environ, requests, launch, variant, pc, MIN_INTERVAL, MAX_INTERVAL,
                   PER_TARGET_DELAY, AUTO_PING, FORWARD_URLS, port, hb, br, nz>>

\* line 213: time.sleep(PER_TARGET_DELAY) is outside the try; an exception it
\* raises leaves the handler, and Flask answers 500
RqStagger ==
    /\ variant = "app" /\ pc = "serving"
    /\ rq.pc = "stagger"
    /\ rq' = IF SleepRaises(PER_TARGET_DELAY)
             THEN [rq EXCEPT !.pc = "done", !.status = 500]
             ELSE [rq EXCEPT !.pc = "loop", !.idx = @ + 1]
    /\ UNCHANGED <<environ, requests, launch, variant, pc, MIN_INTERVAL, MAX_INTERVAL,
                   PER_TARGET_DELAY, AUTO_PING, FORWARD_URLS, session, port, hb, br, nz>>

\* line 215
RqReturn ==
    /\ variant = "app" /\ pc = "serving"
    /\ rq.pc = "loop" /\ rq.idx = Len(FORWARD_URLS)
    /\ rq' = [rq EXCEPT !.pc = "done", !.status = 200, !.body = rq.results]
    /\ UNCHANGED <<environ, requests, launch, variant, pc, MIN_INTERVAL, MAX_INTERVAL,
                   PER_TARGET_DELAY, AUTO_PING, FORWARD_URLS, session, port, hb, br, nz>>

\* the response is sent and the handler's locals are gone
RqClose ==
    /\ variant = "app" /\ pc = "serving"
    /\ rq.pc = "done"
    /\ rq' = [RqIdle EXCEPT !.served = rq.served + 1]
    /\ UNCHANGED <<environ, requests, launch, variant, pc, MIN_INTERVAL, MAX_INTERVAL,
                   PER_TARGET_DELAY, AUTO_PING, FORWARD_URLS, session, port, hb, br, nz>>

Handler == ReceivePulse \/ RqPost \/ RqStagger \/ RqReturn \/ RqClose

-----------------------------------------------------------------------------
(* auto_ping_loop of src/app.py, lines 220-242; it runs while the process lives *)

Alive == variant = "app" /\ pc \in {"main", "serving"}

HeartbeatPayload == "{\"source\": \"breathe\", \"timestamp\": now}"

\* lines 222-225
HbEntry ==
    /\ Alive /\ hb.pc = "entry"
    /\ hb' = [hb EXCEPT !.pc = IF session.open THEN "sleep" ELSE "returned"]
    /\ UNCHANGED <<environ, requests, launch, variant, pc, MIN_INTERVAL, MAX_INTERVAL,
                   PER_TARGET_DELAY, AUTO_PING, FORWARD_URLS, session, port, rq, br, nz>>

\* lines 227-233: an exception of time.sleep(wait) ends the thread
HbSleep ==
    /\ Alive /\ hb.pc = "sleep" /\ hb.tick < MaxTicks
    /\ \E w \in Uniform(MIN_INTERVAL, MAX_INTERVAL) :
          hb' = IF SleepRaises(w)
                THEN [hb EXCEPT !.pc = "crashed", !.wait = w]
                ELSE [hb EXCEPT !.pc = "post", !.wait = w, !.idx = 0,
                                !.attempts = <<>>, !.tick = @ + 1]
    /\ UNCHANGED <<environ, requests, launch, variant, pc, MIN_INTERVAL, MAX_INTERVAL,
                   PER_TARGET_DELAY, AUTO_PING, FORWARD_URLS, session, port, rq, br, nz>>

\* lines 234-241: one pass of the loop body up to the pause
HbPost ==
    /\ Alive /\ hb.pc = "post" /\ hb.idx < Len(FORWARD_URLS)
    /\ \E o \in Outcomes :
          LET u == FORWARD_URLS[hb.idx + 1]
          IN /\ hb' = [hb EXCEPT !.attempts = Append(@, Attempt(u, HeartbeatPayload)),
                                 !.pc = IF Staggers(hb.idx) THEN "stagger" ELSE "post",
                                 !.idx = IF Staggers(hb.idx) THEN @ ELSE @ + 1]
             /\ session' = SessionAfter(u, o)
    /\ UNCHANGED <<environ, requests, launch, variant, pc, MIN_INTERVAL, MAX_INTERVAL,
                   PER_TARGET_DELAY, AUTO_PING, FORWARD_URLS, port, rq, br, nz>>

\* line 242: time.sleep(PER_TARGET_DELAY) is outside the try
HbStagger ==
    /\ Alive /\ hb.pc = "stagger"
    /\ hb' = IF SleepRaises(PER_TARGET_DELAY)
             THEN [hb EXCEPT !.pc = "crashed"]
             ELSE [hb EXCEPT !.pc = "post", !.idx = @ + 1]
    /\ UNCHANGED <<environ, requests, launch, variant, pc, MIN_INTERVAL, MAX_INTERVAL,
                   PER_TARGET_DELAY, AUTO_PING, FORWARD_URLS, session, port, rq, br, nz>>

\* line 226: the for loop is over, back to the top of while True
HbLoop ==
    /\ Alive /\ hb.pc = "post" /\ hb.idx = Len(FORWARD_URLS)
    /\ hb' = [hb EXCEPT !.pc = "sleep"]
    /\ UNCHANGED <<environ, requests, launch, variant, pc, MIN_INTERVAL, MAX_INTERVAL,
                   PER_TARGET_DELAY, AUTO_PING, FORWARD_URLS, session, port, rq, br, nz>>

Heartbeat == HbEntry \/ HbSleep \/ HbPost \/ HbStagger \/ HbLoop

-----------------------------------------------------------------------------
(* src/breath.py: module-level code and POST /receive_pulse, lines 83-109 *)

\* lines 35-54
BreathLoad ==
    /\ variant = "breath" /\ pc = "settings"
    /\ session' = IF requests THEN NewSession ELSE NoSession
    /\ pc' = "serving"
    /\ UNCHANGED <<environ, requests, launch, variant, MIN_INTERVAL, MAX_INTERVAL,
                   PER_TARGET_DELAY, AUTO_PING, FORWARD_URLS, port, hb, rq, br, nz>>

\* lines 89-109: one POST to FORWARD_URL; an exception of it is answered with 500
BreathReceivePulse ==
    /\ variant = "breath" /\ pc = "serving"
    /\ br.pc = "idle" /\ br.served < MaxRequests
    /\ \E req \in Requests, o \in Outcomes :
          /\ br' = IF ~session.open
                   THEN [br EXCEPT !.pc = "done", !.request = req, !.status = 500]
                   ELSE [br EXCEPT !.pc = "done", !.request = req, !.payload = Payload(req),
                                   !.outcome = o,
                                   !.status = IF Raised(o) THEN 500 ELSE 200]
          /\ session' = IF session.open /\ o = "response_cookie"
                        THEN [session EXCEPT !.cookies = @ \cup {<<"FORWARD_URL">>}]
                        ELSE session
    /\ UNCHANGED <<environ, requests, launch, variant, pc, MIN_INTERVAL, MAX_INTERVAL,
                   PER_TARGET_DELAY, AUTO_PING, FORWARD_URLS, port, hb, rq, nz>>

BreathClose ==
    /\ variant = "breath" /\ pc = "serving"
    /\ br.pc = "done"
    /\ br' = [BrIdle EXCEPT !.served = br.served + 1]
    /\ UNCHANGED <<environ, requests, launch, variant, pc, MIN_INTERVAL, MAX_INTERVAL,
                   PER_TARGET_DELAY, AUTO_PING, FORWARD_URLS, session, port, hb, rq, nz>>

Breath == BreathLoad \/ BreathReceivePulse \/ BreathClose

-----------------------------------------------------------------------------
(* Calls of normalize_target_candidate: one on a candidate, one on its result *)

NormalizeOnce ==
    /\ nz.pc = "call"
    /\ nz' = [nz EXCEPT !.pc = "once", !.once = normalize_target_candidate(nz.candidate)]
    /\ UNCHANGED <<environ, requests, launch, variant, pc, MIN_INTERVAL, MAX_INTERVAL,
                   PER_TARGET_DELAY, AUTO_PING, FORWARD_URLS, session, port, hb, rq, br>>

NormalizeTwice ==
    /\ nz.pc = "once" /\ nz.once # NoneStr
    /\ nz' = [nz EXCEPT !.pc = "twice", !.twice = normalize_target_candidate(nz.once)]
    /\ UNCHANGED <<environ, requests, launch, variant, pc, MIN_INTERVAL, MAX_INTERVAL,
                   PER_TARGET_DELAY, AUTO_PING, FORWARD_URLS, session, port, hb, rq, br>>

-----------------------------------------------------------------------------
(* Inputs *)

PULSE_UPPER == <<"/","P","U","L","S","E","_","R","E","C","E","I","V","E","R">>
PULSE_MIXED == <<"/","P","u","l","s","e","_","R","e","c","e","i","v","e","r">>

\* every string put together from at most n of the chunks
StringsOf(chunks, n) ==
    { Concat(cs) : cs \in UNION { [1..k -> chunks] : k \in 0..n } }

Chunks == { <<"a">>, <<SLASH>>, <<SPACE>>, DEFAULT_PULSE_PATH, PULSE_UPPER, PULSE_MIXED }

CandidateStrings == StringsOf(Chunks, MaxChunks) \cup {NoneStr}

\* the items a FORWARD_URLS setting is put together from
ItemPool == { <<>>, <<SPACE>>, <<"a">>, <<"a", SLASH>>, <<"a">> \o DEFAULT_PULSE_PATH,
              <<SPACE, "a">> \o PULSE_UPPER \o <<SLASH>>, <<"b", SLASH>> }

ExampleRawList ==
    JoinComma(<< <<"h","t","t","p","s",":","/","/","a",".","e","x","a","m","p","l","e",".","c","o","m">>,
                 <<"h","t","t","p","s",":","/","/","a",".","e","x","a","m","p","l","e",".","c","o","m">> \o DEFAULT_PULSE_PATH,
                 <<"h","t","t","p","s",":","/","/","b",".","e","x","a","m","p","l","e",".","c","o","m","/">> >>)

ExampleTargets ==
    << <<"h","t","t","p","s",":","/","/","a",".","e","x","a","m","p","l","e",".","c","o","m">> \o DEFAULT_PULSE_PATH,
       <<"h","t","t","p","s",":","/","/","b",".","e","x","a","m","p","l","e",".","c","o","m">> \o DEFAULT_PULSE_PATH >>

RawLists ==
    { JoinComma(items) : items \in UNION { [1..k -> ItemPool] : k \in 1..MaxItems } }
        \cup {NoneStr, ExampleRawList}

LegacySettings == { NoneStr, <<SPACE>>, <<"c">>, <<"a", SLASH>> }

\* the environment as a function of the settings' names
Environ(urls, legacy, autoping, tmin, tmax, delay, prt) ==
    [n \in {"FORWARD_URLS", "FORWARD_URL", "AUTO_PING", "MIN_INTERVAL", "MAX_INTERVAL",
            "PER_TARGET_DELAY", "PORT"} |->
        CASE n = "FORWARD_URLS" -> urls
          [] n = "FORWARD_URL" -> legacy
          [] n = "AUTO_PING" -> autoping
          [] n = "MIN_INTERVAL" -> tmin
          [] n = "MAX_INTERVAL" -> tmax
          [] n = "PER_TARGET_DELAY" -> delay
          [] n = "PORT" -> prt]

\* nothing of the process has run yet
Fresh ==
    /\ MIN_INTERVAL = Unbound /\ MAX_INTERVAL = Unbound /\ PER_TARGET_DELAY = Unbound
    /\ AUTO_PING = FALSE /\ FORWARD_URLS = <<>> /\ session = NoSession /\ port = 0
    /\ hb = HbOff /\ rq = RqIdle /\ br = BrIdle

-----------------------------------------------------------------------------
(* SpecNormalize: normalize_target_candidate on every candidate string *)

InitNormalize ==
    /\ Fresh
    /\ environ = Environ(NoneStr, NoneStr, NoneStr, UnsetNum, UnsetNum, UnsetNum, UnsetNum)
    /\ requests = TRUE /\ launch = "wsgi" /\ variant = "app" /\ pc = "off"
    /\ \E c \in CandidateStrings :
          nz = [pc |-> "call", candidate |-> c, once |-> NoneStr, twice |-> NoneStr]

NextNormalize == NormalizeOnce \/ NormalizeTwice

SpecNormalize == InitNormalize /\ [][NextNormalize]_vars

-----------------------------------------------------------------------------
(* SpecTargets: the target list built at startup from every URL setting *)

InitTargets ==
    /\ Fresh /\ nz = NzOff
    /\ \E urls \in RawLists, legacy \in LegacySettings :
          environ = Environ(urls, legacy, NoneStr, UnsetNum, UnsetNum, UnsetNum, UnsetNum)
    /\ requests = TRUE /\ launch = "wsgi" /\ variant = "app" /\ pc = "settings"

NextTargets ==
    \/ ReadSettings \/ ParseIntervals \/ ParseDelay \/ Sanitize
    \/ CollectTargets \/ NormalizeTargets \/ DedupTargets

SpecTargets == InitTargets /\ [][NextTargets]_vars

-----------------------------------------------------------------------------
(* SpecStartup: the module-level code of app.py on every numeric setting *)

MinSettings == { UnsetNum, IntLit(20), IntLit(0), DecLit(250), NanLit, Junk }
MaxSettings == { UnsetNum, IntLit(10), InfLit, Junk }
DelaySettings == { UnsetNum, IntLit(0), IntLit(-1), NanLit, Junk }
PortSettings == { UnsetNum, IntLit(8080), DecLit(808050), Junk }
AutoPingSettings == { NoneStr, <<"T","R","U","E">>, <<"n","o">> }

InitStartup ==
    /\ Fresh /\ nz = NzOff
    /\ \E tmin \in MinSettings, tmax \in MaxSettings, delay \in DelaySettings,
          prt \in PortSettings, ap \in AutoPingSettings :
          environ = Environ(<<"a">>, NoneStr, ap, tmin, tmax, delay, prt)
    /\ requests \in BOOLEAN /\ launch \in {"script", "wsgi"}
    /\ variant = "app" /\ pc = "settings"

SpecStartup == InitStartup /\ [][Startup]_vars

-----------------------------------------------------------------------------
(* Spec: the running service: startup, the heartbeat thread and the handlers *)

TargetNames == <<"a", "b", "c", "d", "e", "f", "g", "h">>

\* FORWARD_URLS settings naming 0 to MaxTargets targets; "," names none
RunTargetSettings ==
    { IF n = 0 THEN <<COMMA>> ELSE JoinComma([i \in 1..n |-> <<TargetNames[i]>>]) :
        n \in 0..MaxTargets }

RunMinSettings == { UnsetNum, NanLit }
RunMaxSettings == { UnsetNum }
RunDelaySettings == { UnsetNum, IntLit(0), NanLit }
RunLaunches == { <<"wsgi", UnsetNum>>, <<"script", Junk>> }
RunAutoPing == { NoneStr, <<"n","o">> }

Init ==
    /\ Fresh /\ nz = NzOff
    /\ pc = "settings"
    /\ requests \in BOOLEAN
    /\ \/ /\ variant = "app"
          /\ \E urls \in RunTargetSettings, tmin \in RunMinSettings, tmax \in RunMaxSettings,
                delay \in RunDelaySettings, l \in RunLaunches, ap \in RunAutoPing :
                /\ environ = Environ(urls, NoneStr, ap, tmin, tmax, delay, l[2])
                /\ launch = l[1]
       \/ /\ variant = "breath"
          /\ environ = Environ(NoneStr, NoneStr, NoneStr, UnsetNum, UnsetNum, UnsetNum, UnsetNum)
          /\ launch = "wsgi"

Next == Startup \/ Heartbeat \/ Handler \/ Breath

Spec == Init /\ [][Next]_vars

-----------------------------------------------------------------------------
(* Claims about normalize_target_candidate (SpecNormalize) *)

\* C5: normalize_target_candidate is idempotent: whenever the normalization of a
\* candidate is not null, normalizing that result again returns the same string.
C5_Idempotent ==
    nz.pc = "twice" => nz.twice = nz.once

\* a second call has been made on the result of a candidate that carries an
\* upper-case copy of the suffix and a trailing slash
C5_Witness ==
    /\ nz.pc = "twice"
    /\ nz.candidate = <<"a">> \o PULSE_UPPER \o <<SLASH>>
    /\ nz.once = <<"a">> \o DEFAULT_PULSE_PATH
    /\ nz.twice = nz.once

\* bases that are not empty, hold no whitespace and end neither in '/' nor in the suffix
Bases == { b \in StringsOf({<<"a">>, <<SLASH>>}, MaxChunks) :
              b # <<>> /\ b[Len(b)] # SLASH }

Slashes(m) == [i \in 1..m |-> SLASH]

\* C6: for a candidate made of a base b, then k >= 0 copies of '/pulse_receiver' in
\* any letter case, then m >= 0 trailing slashes, normalize_target_candidate
\* returns exactly b + '/pulse_receiver'.
C6_StripsAllCopiesAndSlashes ==
    nz.pc \in {"once", "twice"} =>
        \A b \in Bases, m \in 0..MaxChunks :
            \A copies \in StringsOf({DEFAULT_PULSE_PATH, PULSE_UPPER, PULSE_MIXED}, MaxChunks) :
                nz.candidate = b \o copies \o Slashes(m)
                    => nz.once = b \o DEFAULT_PULSE_PATH

\* what the code does hold to: at most one trailing slash after the copies
C6_AtMostOneSlash ==
    nz.pc \in {"once", "twice"} =>
        \A b \in Bases, m \in 0..1 :
            \A copies \in StringsOf({DEFAULT_PULSE_PATH, PULSE_UPPER, PULSE_MIXED}, MaxChunks) :
                nz.candidate = b \o copies \o Slashes(m)
                    => nz.once = b \o DEFAULT_PULSE_PATH

-----------------------------------------------------------------------------
(* Claims about the target list built at startup (SpecTargets) *)

Built == pc = "session"

\* C3: for every value of FORWARD_URLS and FORWARD_URL the target list built at
\* startup is non-empty: the legacy target when the multi-target setting yields no
\* usable candidate, and otherwise the built-in default set.
C3_TargetListNonEmpty ==
    Built =>
        /\ FORWARD_URLS # <<>>
        /\ (Items(raw_list) = <<>> /\ LEGACY_FORWARD # <<>>)
              => FORWARD_URLS = <<normalize_target_candidate(LEGACY_FORWARD)>>
        /\ (Items(raw_list) = <<>> /\ LEGACY_FORWARD = <<>>)
              => FORWARD_URLS = NormalizeAll(DEFAULT_FORWARD_URLS)

\* the settings are unset and the six default targets were built
C3_DefaultsBuilt ==
    /\ Built /\ environ["FORWARD_URLS"] = NoneStr /\ environ["FORWARD_URL"] = NoneStr
    /\ Len(FORWARD_URLS) = Len(DEFAULT_FORWARD_URLS)

\* the index of the first occurrence of x in xs
FirstIndex(xs, x) == CHOOSE i \in 1..Len(xs) :
                        xs[i] = x /\ \A j \in 1..(i - 1) : xs[j] # x

Range(xs) == { xs[i] : i \in 1..Len(xs) }

\* C4: the target list built at startup contains each distinct normalized URL of
\* the raw candidates exactly once, ordered by the first occurrence of that URL;
\* the three example candidates give the two example targets.
C4_DedupFirstOccurrence ==
    Built =>
        LET cands == Candidates
            urls == [i \in 1..Len(cands) |-> normalize_target_candidate(cands[i])]
        IN /\ Range(FORWARD_URLS) = Range(urls)
           /\ \A i, j \in 1..Len(FORWARD_URLS) :
                 i < j => /\ FORWARD_URLS[i] # FORWARD_URLS[j]
                          /\ FirstIndex(urls, FORWARD_URLS[i]) < FirstIndex(urls, FORWARD_URLS[j])
           /\ environ["FORWARD_URLS"] = ExampleRawList => FORWARD_URLS = ExampleTargets

\* the example was built: three candidates, the first two normalizing to one URL
C4_Witness ==
    /\ Built
    /\ environ["FORWARD_URLS"] = ExampleRawList
    /\ Len(Candidates) = 3
    /\ FORWARD_URLS = ExampleTargets

-----------------------------------------------------------------------------
(* Claims about the numeric settings (SpecStartup) *)

Unparseable(name) == environ[name].form = "junk"

ParsedIntervals == pc \notin {"settings", "intervals"}
ParsedDelay == pc \notin {"settings", "intervals", "delay"}

\* C7: startup never aborts because of an invalid numeric setting: an unparseable
\* MIN_INTERVAL, MAX_INTERVAL, PER_TARGET_DELAY or PORT is replaced by that
\* setting's default (15 s, 49 s, 0.15 s, the default port) and the process
\* goes on to start.
C7_StartupNeverAborts ==
    /\ pc # "aborted"
    /\ (ParsedIntervals /\ Unparseable("MIN_INTERVAL"))
          => MIN_INTERVAL = FIN(DefaultMinSeconds * 100)
    /\ (ParsedIntervals /\ Unparseable("MAX_INTERVAL"))
          => MAX_INTERVAL = FIN(DefaultMaxSeconds * 100)
    /\ (ParsedDelay /\ Unparseable("PER_TARGET_DELAY"))
          => PER_TARGET_DELAY = FIN(DefaultDelayHundredths)
    /\ (pc = "serving" /\ launch = "script" /\ Unparseable("PORT"))
          => port = DefaultPort

\* the same for the three settings whose conversion is guarded
C7_GuardedSettingsFallBack ==
    /\ (ParsedIntervals /\ Unparseable("MIN_INTERVAL"))
          => MIN_INTERVAL = FIN(DefaultMinSeconds * 100)
    /\ (ParsedIntervals /\ Unparseable("MAX_INTERVAL"))
          => MAX_INTERVAL = FIN(DefaultMaxSeconds * 100)
    /\ (ParsedDelay /\ Unparseable("PER_TARGET_DELAY"))
          => PER_TARGET_DELAY = FIN(DefaultDelayHundredths)
    /\ (pc = "aborted") => (launch = "script" /\ IntRaises(EnvNum("PORT", IntLit(DefaultPort))))

-----------------------------------------------------------------------------
(* Claims about the running service (Spec) *)

AttemptedUrls(x) == [i \in 1..Len(x.attempts) |-> x.attempts[i].url]

\* the attempts of a fan-out so far are the first targets of the list, in list order
InListOrder(x) == AttemptedUrls(x) = SubSeq(FORWARD_URLS, 1, Len(x.attempts))

\* C1: a relay fan-out of /receive_pulse over the N targets attempts each target
\* once, in list order, and returns N results in that order, whichever deliveries
\* succeed, time out or fail: a failed target yields an error result and the
\* later targets are still attempted.
C1_FanoutComplete ==
    (variant = "app" /\ rq.pc = "done" /\ session.open) =>
        /\ rq.status = 200
        /\ AttemptedUrls(rq) = FORWARD_URLS
        /\ Len(rq.body) = Len(FORWARD_URLS)
        /\ \A i \in 1..Len(rq.body) : rq.body[i].url = FORWARD_URLS[i]

\* the same, for the configurations whose PER_TARGET_DELAY time.sleep accepts
C1_FanoutCompleteWhenDelaySleeps ==
    (variant = "app" /\ rq.pc = "done" /\ session.open /\ ~SleepRaises(PER_TARGET_DELAY)) =>
        /\ rq.status = 200
        /\ AttemptedUrls(rq) = FORWARD_URLS
        /\ Len(rq.body) = Len(FORWARD_URLS)
        /\ \A i \in 1..Len(rq.body) : rq.body[i].url = FORWARD_URLS[i]

\* C2: in app.py and in breath.py, with the HTTP client available /receive_pulse
\* answers 200 whichever downstream deliveries fail; it answers with a server
\* error only when the HTTP client is unavailable.
C2_Always200 ==
    /\ rq.pc = "done" => rq.status = IF session.open THEN 200 ELSE 500
    /\ br.pc = "done" => br.status = IF session.open THEN 200 ELSE 500

\* the same for app.py alone, for the configurations whose PER_TARGET_DELAY
\* time.sleep accepts
C2_AppAlways200WhenDelaySleeps ==
    (rq.pc = "done" /\ ~SleepRaises(PER_TARGET_DELAY))
        => rq.status = IF session.open THEN 200 ELSE 500

\* a <= x <= b on floats
FloatBetween(x, a, b) ==
    /\ x.k = "fin" /\ a.k = "fin" /\ b.k = "fin"
    /\ a.v <= x.v /\ x.v <= b.v

\* C8: with heartbeating enabled and the HTTP client available the heartbeat loop
\* never terminates: every iteration sleeps a wait in [MIN_INTERVAL, MAX_INTERVAL]
\* and then posts to every target in list order, whatever the deliveries end in.
C8_HeartbeatNeverEnds ==
    (Alive /\ AUTO_PING /\ session.open) =>
        /\ hb.pc \in {"entry", "sleep", "post", "stagger"}
        /\ hb.pc \in {"post", "stagger"} =>
              /\ FloatBetween(hb.wait, MIN_INTERVAL, MAX_INTERVAL)
              /\ InListOrder(hb)

\* the same, for the configurations whose intervals and delay time.sleep accepts
C8_HeartbeatRunsWhenSleepsWork ==
    (Alive /\ AUTO_PING /\ session.open /\ ~SleepRaises(PER_TARGET_DELAY)
        /\ MIN_INTERVAL.k = "fin" /\ MAX_INTERVAL.k = "fin") =>
        /\ hb.pc \in {"entry", "sleep", "post", "stagger"}
        /\ hb.pc \in {"post", "stagger"} =>
              /\ FloatBetween(hb.wait, MIN_INTERVAL, MAX_INTERVAL)
              /\ InListOrder(hb)

NoJson(req) == req.json \in {"absent", "malformed", "null"}

\* the payload a request is to be relayed with, in the words of the claim
Relayed(req, payload) ==
    /\ ~NoJson(req) => payload = req.json
    /\ (NoJson(req) /\ req.form # "{}") => payload = req.form
    /\ (NoJson(req) /\ req.form = "{}") => payload = "{\"message\": \"ping\"}"

\* C9: /receive_pulse relays the parsed JSON body when parsing yields a value
\* (anything but null, the empty object included); otherwise the form fields when
\* there are any; otherwise {"message": "ping"}.
C9_PayloadChoice ==
    /\ (rq.pc \in {"loop", "stagger"} \/ (rq.pc = "done" /\ session.open)) =>
          /\ Relayed(rq.request, rq.payload)
          /\ \A i \in 1..Len(rq.attempts) : rq.attempts[i].payload = rq.payload
    /\ (br.pc = "done" /\ session.open) => Relayed(br.request, br.payload)

\* a request with no JSON and no form content was relayed as {"message": "ping"}
C9_Witness ==
    /\ rq.pc = "done" /\ rq.status = 200
    /\ rq.request = NoRequest
    /\ Len(rq.attempts) = 2
    /\ rq.attempts[2].payload = "{\"message\": \"ping\"}"

\* a fan-out's counters, attempts and results agree with one another
OwnResults ==
    /\ InListOrder(hb) /\ InListOrder(rq)
    /\ hb.pc \in {"post", "stagger"} =>
          Len(hb.attempts) = hb.idx + (IF hb.pc = "stagger" THEN 1 ELSE 0)
    /\ rq.pc \in {"loop", "stagger"} =>
          Len(rq.attempts) = rq.idx + (IF rq.pc = "stagger" THEN 1 ELSE 0)
    /\ Len(rq.results) = Len(rq.attempts)
    /\ \A i \in 1..Len(rq.results) : rq.results[i].url = rq.attempts[i].url

====
